---- MODULE Spec2Model ----
(***************************************************************************)
(* Model of APP.PY: real-time audio capture, waveform display and WAV      *)
(* recording.  The driver (__main__), select_device and visualize_audio    *)
(* are modelled statement by statement; the device, the display window     *)
(* and the file system are the environment.  An exception that no handler  *)
(* of the program catches ends the process (pc = "crashed").               *)
(*                                                                         *)
(* numpy semantics are those the program was written for: conversion of   *)
(* an out-of-range integer to dtype 'b' wraps modulo 2^8, and adding the   *)
(* Python integer 128 to an int8 array promotes the result to int16.       *)
(* Elapsed wall time (the denominator of the frame rate) is not modelled;  *)
(* the frame rate is represented by the frame_count it is computed from.   *)
(***************************************************************************)
EXTENDS Integers, Sequences, FiniteSets, TLC

VARIABLES
    pc,             \* position of the single thread of control
    args,           \* parsed command line (argparse namespace)
    device_index,   \* <<>> while unbound, <<i>> once assigned
    success,        \* <<>> or <<result of the last visualize_audio call>>
    fig,            \* display surface of the current run
    audio,          \* PyAudio instance of the current run
    stream,         \* device stream of the current run
    wav_file,       \* output WAV file: state, header fields, data bytes
    frame_count,    \* cycles whose redraw succeeded
    audio_data,     \* raw frame of the current cycle
    data_np,        \* amplitude series of the current cycle
    ydata,          \* the plot line's y buffer
    frame_rate,     \* <<>> or <<frame_count the printed frame rate was computed from>>
    stdout,         \* messages printed so far
    frames_read,    \* history: frames returned by stream.read in this run
    calls,          \* history: number of times each resource call was made in this run
    runs,           \* history: number of visualize_audio calls started
    prompts,        \* history: number of prompts select_device has shown
    raised,         \* "none", or the call whose exception nothing caught
    closed_after,   \* history: <<frame_count at the moment the window was closed>>
    trace,          \* history: the steps this run has completed, in order
    file_before     \* history: the output file as it was when the process started

vars == <<pc, args, device_index, success, fig, audio, stream, wav_file,
          frame_count, audio_data, data_np, ydata, frame_rate, stdout,
          frames_read, calls, runs, prompts, raised, closed_after,
          trace, file_before>>

---------------------------------------------------------------------------
(* Bounds of the model *)

MaxFrameSize == 2      \* samples_per_frame ranges over 1..MaxFrameSize
MaxChannels == 2       \* num_channels ranges over 1..MaxChannels
MaxCycles == 2         \* at most this many successful reads per run
MaxRuns == 2           \* at most this many visualize_audio calls
MaxPrompts == 2        \* at most this many prompts of select_device
NumDevices == 2        \* deviceCount of host API 0

(* Program constants *)

SAMPLE_RATE == 44100
SAMPLE_WIDTH == 2      \* audio.get_sample_size(pyaudio.paInt16)
BIAS == 128

Rates == {8000, SAMPLE_RATE}

\* First bytes of the frames the device can deliver; each further byte of
\* a frame is 64 more, modulo 256, so that the bytes at even offsets take
\* the values 0, 128 and 127, 255.
FrameSeeds == {0, 127}

DeviceFrame(seed, len) == [i \in 1..len |-> (seed + 64 * (i - 1)) % 256]

CallNames == {"wave.open", "wav_file.close", "audio.open", "stream.stop_stream",
              "stream.close", "audio.terminate"}

---------------------------------------------------------------------------
(* Pure functions *)

\* Variant of validate_device: deviceCount itself is accepted.
validate_device_inclusive(index) == ~(index < 0 \/ index > NumDevices)

\* validate_device: 0 <= device_index < deviceCount
validate_device(index) == ~(index < 0 \/ index >= NumDevices)

\* Number of bytes stream.read(samples_per_frame) returns.
FrameBytes(spf, channels) == spf * channels * SAMPLE_WIDTH

\* struct.unpack(str(2 * samples_per_frame) + 'B', audio_data): succeeds
\* only when the buffer holds exactly 2 * samples_per_frame bytes.
UnpackOk(spf, data) == Len(data) = 2 * spf

\* np.array(data_int, dtype='b'): each value 0..255 wraps into int8.
ToInt8(v) == ((v + 128) % 256) - 128

\* Variant of AddBias: the sum taken in the array's own 8 bits.
AddBiasInt8(x) == ((x + BIAS + 128) % 256) - 128

\* int8 array + 128: value-based casting promotes to int16, the sum is
\* taken in 16 bits.
AddBias(x) == ((x + BIAS + 32768) % 65536) - 32768

\* np.array(data_int, dtype='b')[::2] + 128
ToSeries(data_int) ==
    [i \in 1..((Len(data_int) + 1) \div 2) |-> AddBias(ToInt8(data_int[2 * i - 1]))]

---------------------------------------------------------------------------
(* Initial state: the command line has been parsed (line 175) *)

\* The output path before the program runs: no file, or the closed file
\* of an earlier recording.
NoFile == [state |-> "none", nchannels |-> 0, sampwidth |-> 0,
           framerate |-> 0, data |-> <<>>]

OldFile == [state |-> "none", nchannels |-> 1, sampwidth |-> SAMPLE_WIDTH,
            framerate |-> SAMPLE_RATE, data |-> <<7, 9>>]

NoCalls == [c \in CallNames |-> 0]

Called(c) == calls' = [calls EXCEPT ![c] = @ + 1]

Init ==
    /\ pc = "main"
    /\ args \in [input_device : {<<>>} \cup {<<i>> : i \in (-1)..NumDevices},
                 samples_per_frame : 1..MaxFrameSize,
                 num_channels : 1..MaxChannels,
                 sample_rate : Rates]
    /\ device_index = <<>>
    /\ success = <<>>
    /\ fig = "none"
    /\ audio = "none"
    /\ stream = "none"
    /\ wav_file \in {NoFile, OldFile}
    /\ frame_count = 0
    /\ audio_data = <<>>
    /\ data_np = <<>>
    /\ ydata = <<>>
    /\ frame_rate = <<>>
    /\ stdout = <<>>
    /\ frames_read = <<>>
    /\ calls = NoCalls
    /\ runs = 0
    /\ prompts = 0
    /\ raised = "none"
    /\ closed_after = <<>>
    /\ trace = <<>>
    /\ file_before = wav_file

---------------------------------------------------------------------------
(* __main__ and select_device *)

\* Lines 178-181: use the command-line index only if it validates.
Main ==
    /\ pc = "main"
    /\ IF args.input_device = <<>> \/ ~validate_device(args.input_device[1])
         THEN /\ pc' = "select"
              /\ UNCHANGED device_index
         ELSE /\ device_index' = args.input_device
              /\ pc' = "run"
    /\ UNCHANGED <<args, success, fig, audio, stream, wav_file, frame_count,
                   audio_data, data_np, ydata, frame_rate, stdout,
                   frames_read, calls, runs, prompts, raised, closed_after,
                   trace, file_before>>

\* Lines 146-158: one iteration of select_device's loop.  The user's input
\* is <<>> for text that int() rejects, <<i>> for the integer i.
SelectDevice ==
    /\ pc = "select"
    /\ \E input \in {<<>>} \cup {<<i>> : i \in (-1)..NumDevices} :
         IF input = <<>>
           THEN /\ prompts < MaxPrompts
                /\ stdout' = Append(stdout, "Invalid input")
                /\ UNCHANGED <<pc, device_index>>
           ELSE IF validate_device(input[1])
             THEN /\ device_index' = input
                  /\ pc' = "run"
                  /\ UNCHANGED stdout
             ELSE /\ prompts < MaxPrompts
                  /\ stdout' = Append(stdout, "Invalid index")
                  /\ UNCHANGED <<pc, device_index>>
    /\ prompts' = prompts + 1
    /\ UNCHANGED <<args, success, fig, audio, stream, wav_file, frame_count,
                   audio_data, data_np, ydata, frame_rate, frames_read, calls,
                   runs, raised, closed_after, trace, file_before>>

\* Lines 185-189: the driver's loop after visualize_audio has returned.
Returned ==
    /\ pc = "returned"
    /\ pc' = IF success = <<FALSE>> THEN "select" ELSE "done"
    /\ UNCHANGED <<args, device_index, success, fig, audio, stream, wav_file,
                   frame_count, audio_data, data_np, ydata, frame_rate,
                   stdout, frames_read, calls, runs, prompts, raised,
                   closed_after, trace, file_before>>

---------------------------------------------------------------------------
(* visualize_audio: Opening *)

\* Lines 55-58: a new figure and a new PyAudio instance; the locals of the
\* call start unbound.
Begin ==
    /\ pc = "run"
    /\ runs < MaxRuns
    /\ runs' = runs + 1
    /\ fig' = "created"
    /\ audio' = "live"
    /\ stream' = "none"
    /\ frame_count' = 0
    /\ audio_data' = <<>>
    /\ data_np' = <<>>
    /\ ydata' = <<>>
    /\ frame_rate' = <<>>
    /\ frames_read' = <<>>
    /\ calls' = NoCalls
    /\ pc' = "open_stream"
    /\ closed_after' = <<>>
    /\ trace' = <<>>
    /\ UNCHANGED <<args, device_index, success, wav_file, stdout, prompts,
                   raised, file_before>>

\* Lines 62-70: audio.open succeeds; the stream starts running.
OpenStreamOk ==
    /\ pc = "open_stream"
    /\ validate_device(device_index[1])
    /\ stream' = "active"
    /\ Called("audio.open")
    /\ pc' = "open_wav"
    /\ UNCHANGED <<args, device_index, success, fig, audio, wav_file,
                   frame_count, audio_data, data_np, ydata, frame_rate,
                   stdout, frames_read, runs, prompts, raised, closed_after,
                   trace, file_before>>

\* Variant of OpenStreamOSError: the OSError is not caught.
OpenStreamOSErrorUncaught ==
    /\ pc = "open_stream"
    /\ Called("audio.open")
    /\ raised' = "audio.open"
    /\ pc' = "crashed"
    /\ UNCHANGED <<args, device_index, success, fig, audio, stream, wav_file,
                   frame_count, audio_data, data_np, ydata, frame_rate,
                   stdout, frames_read, runs, prompts, closed_after, trace,
                   file_before>>

\* Variant of OpenStreamOSError: the output file is opened before the stream.
OpenStreamOSErrorTruncates ==
    /\ pc = "open_stream"
    /\ Called("audio.open")
    /\ stdout' = Append(stdout, "Invalid index")
    /\ success' = <<FALSE>>
    /\ pc' = "returned"
    /\ UNCHANGED trace
    /\ wav_file' = [state |-> "open", nchannels |-> args.num_channels,
                    sampwidth |-> SAMPLE_WIDTH,
                    framerate |-> args.sample_rate, data |-> <<>>]
    /\ UNCHANGED <<args, device_index, fig, audio, stream, frame_count,
                   audio_data, data_np, ydata, frame_rate, frames_read, runs,
                   prompts, raised, closed_after, file_before>>

\* Lines 71-73: audio.open raises OSError; print and return False.
OpenStreamOSError ==
    /\ pc = "open_stream"
    /\ Called("audio.open")
    /\ stdout' = Append(stdout, "Invalid index")
    /\ success' = <<FALSE>>
    /\ pc' = "returned"
    /\ UNCHANGED <<args, device_index, fig, audio, stream, wav_file,
                   frame_count, audio_data, data_np, ydata, frame_rate,
                   frames_read, runs, prompts, raised, closed_after, trace,
                   file_before>>

\* Variant of OpenWavOk: the header gets the default rate.
OpenWavOkDefaultRate ==
    /\ pc = "open_wav"
    /\ wav_file' = [state |-> "open", nchannels |-> args.num_channels,
                    sampwidth |-> SAMPLE_WIDTH,
                    framerate |-> SAMPLE_RATE, data |-> <<>>]
    /\ Called("wave.open")
    /\ pc' = "start_loop"
    /\ UNCHANGED <<args, device_index, success, fig, audio, stream,
                   frame_count, audio_data, data_np, ydata, frame_rate,
                   stdout, frames_read, runs, prompts, raised, closed_after,
                   trace, file_before>>

\* Lines 76-79: wave.open truncates the file; the header fields are set.
OpenWavOk ==
    /\ pc = "open_wav"
    /\ wav_file' = [state |-> "open", nchannels |-> args.num_channels,
                    sampwidth |-> SAMPLE_WIDTH,
                    framerate |-> args.sample_rate, data |-> <<>>]
    /\ Called("wave.open")
    /\ pc' = "start_loop"
    /\ UNCHANGED <<args, device_index, success, fig, audio, stream,
                   frame_count, audio_data, data_np, ydata, frame_rate,
                   stdout, frames_read, runs, prompts, raised, closed_after,
                   trace, file_before>>

\* Line 76: wave.open raises OSError, which nothing catches.
OpenWavOSError ==
    /\ pc = "open_wav"
    /\ Called("wave.open")
    /\ pc' = "crashed"
    /\ raised' = "wave.open"
    /\ UNCHANGED <<args, device_index, success, fig, audio, stream, wav_file,
                   frame_count, audio_data, data_np, ydata, frame_rate,
                   stdout, frames_read, runs, prompts, closed_after, trace,
                   file_before>>

\* Lines 82-102: the line's buffer gets samples_per_frame values, the
\* window is shown, frame_count starts at 0.
StartLoop ==
    /\ pc = "start_loop"
    /\ ydata' = [i \in 1..args.samples_per_frame |-> 0]
    /\ fig' = "open"
    /\ stdout' = Append(stdout, "started")
    /\ frame_count' = 0
    /\ pc' = "read"
    /\ UNCHANGED <<args, device_index, success, audio, stream, wav_file,
                   audio_data, data_np, frame_rate, frames_read, calls, runs,
                   prompts, raised, closed_after, trace, file_before>>

---------------------------------------------------------------------------
(* visualize_audio: the capture loop, lines 104-128 *)

\* Variant of ReadOk: the frame goes to the conversion unwritten.
ReadOkSkipsWrite ==
    /\ pc = "read"
    /\ Len(frames_read) < MaxCycles
    /\ \E seed \in FrameSeeds :
         /\ audio_data' = DeviceFrame(seed, FrameBytes(args.samples_per_frame,
                                                        args.num_channels))
         /\ frames_read' = Append(frames_read, audio_data')
    /\ pc' = "convert"
    /\ trace' = Append(trace, "read")
    /\ UNCHANGED <<args, device_index, success, fig, audio, stream, wav_file,
                   frame_count, data_np, ydata, frame_rate, stdout, calls,
                   runs, prompts, raised, closed_after, file_before>>

\* Line 106: stream.read returns one frame of the configured size.
ReadOk ==
    /\ pc = "read"
    /\ Len(frames_read) < MaxCycles
    /\ \E seed \in FrameSeeds :
         /\ audio_data' = DeviceFrame(seed, FrameBytes(args.samples_per_frame,
                                                        args.num_channels))
         /\ frames_read' = Append(frames_read, audio_data')
    /\ pc' = "write"
    /\ trace' = Append(trace, "read")
    /\ UNCHANGED <<args, device_index, success, fig, audio, stream, wav_file,
                   frame_count, data_np, ydata, frame_rate, stdout, calls,
                   runs, prompts, raised, closed_after, file_before>>

\* Line 106: stream.read raises OSError, which nothing catches.
ReadOSError ==
    /\ pc = "read"
    /\ pc' = "crashed"
    /\ raised' = "stream.read"
    /\ UNCHANGED <<args, device_index, success, fig, audio, stream, wav_file,
                   frame_count, audio_data, data_np, ydata, frame_rate,
                   stdout, frames_read, calls, runs, prompts, closed_after,
                   trace, file_before>>

\* Variant of WriteFramesData: the new frame goes in front of the data.
WriteFramesPrepend(data, frame) == frame \o data

\* wav_file.writeframes(audio_data): the bytes are appended unchanged.
WriteFramesData(data, frame) == data \o frame

\* Line 109.
WriteFrames ==
    /\ pc = "write"
    /\ wav_file' = [wav_file EXCEPT !.data = WriteFramesData(@, audio_data)]
    /\ pc' = "convert"
    /\ trace' = Append(trace, "write")
    /\ UNCHANGED <<args, device_index, success, fig, audio, stream,
                   frame_count, audio_data, data_np, ydata, frame_rate,
                   stdout, frames_read, calls, runs, prompts, raised,
                   closed_after, file_before>>

\* Line 109: writeframes raises OSError, which nothing catches.
WriteFramesOSError ==
    /\ pc = "write"
    /\ pc' = "crashed"
    /\ raised' = "wav_file.writeframes"
    /\ UNCHANGED <<args, device_index, success, fig, audio, stream, wav_file,
                   frame_count, audio_data, data_np, ydata, frame_rate,
                   stdout, frames_read, calls, runs, prompts, closed_after,
                   trace, file_before>>

\* Lines 112-113: struct.unpack raises struct.error (uncaught) unless the
\* frame holds exactly 2 * samples_per_frame bytes.
Convert ==
    /\ pc = "convert"
    /\ IF UnpackOk(args.samples_per_frame, audio_data)
         THEN /\ data_np' = ToSeries(audio_data)
              /\ pc' = "set_ydata"
              /\ trace' = Append(trace, "transcode")
              /\ UNCHANGED raised
         ELSE /\ pc' = "crashed"
              /\ raised' = "struct.unpack"
              /\ UNCHANGED <<data_np, trace>>
    /\ UNCHANGED <<args, device_index, success, fig, audio, stream, wav_file,
                   frame_count, audio_data, ydata, frame_rate, stdout,
                   frames_read, calls, runs, prompts, closed_after,
                   file_before>>

\* Line 116.
SetYData ==
    /\ pc = "set_ydata"
    /\ ydata' = data_np
    /\ pc' = "draw"
    /\ trace' = Append(trace, "update")
    /\ UNCHANGED <<args, device_index, success, fig, audio, stream, wav_file,
                   frame_count, audio_data, data_np, frame_rate, stdout,
                   frames_read, calls, runs, prompts, raised, closed_after,
                   file_before>>

\* Variant of DrawOk: the cycle is not counted.
DrawOkUncounted ==
    /\ pc = "draw"
    /\ fig = "open"
    /\ pc' = "read"
    /\ UNCHANGED <<args, device_index, success, fig, audio, stream, wav_file,
                   frame_count, audio_data, data_np, ydata, frame_rate,
                   stdout, frames_read, calls, runs, prompts, raised,
                   closed_after, trace, file_before>>

\* Lines 120-122: the redraw succeeds while the window exists.
DrawOk ==
    /\ pc = "draw"
    /\ fig = "open"
    /\ frame_count' = frame_count + 1
    /\ pc' = "read"
    /\ trace' = Append(trace, "increment")
    /\ UNCHANGED <<args, device_index, success, fig, audio, stream, wav_file,
                   audio_data, data_np, ydata, frame_rate, stdout,
                   frames_read, calls, runs, prompts, raised, closed_after,
                   file_before>>

\* Variant of DrawTclError: the failed redraw is counted as a cycle.
DrawTclErrorCounted ==
    /\ pc = "draw"
    /\ fig = "closed"
    /\ frame_count' = frame_count + 1
    /\ frame_rate' = <<frame_count'>>
    /\ stdout' = stdout \o <<"stopped", "Average frame rate">>
    /\ pc' = "close_wav"
    /\ trace' = Append(trace, "closure")
    /\ UNCHANGED <<args, device_index, success, fig, audio, stream, wav_file,
                   audio_data, data_np, ydata, frames_read, calls, runs,
                   prompts, raised, closed_after, file_before>>

\* Variant of DrawTclError: the frame rate is neither computed nor printed.
DrawTclErrorSilent ==
    /\ pc = "draw"
    /\ fig = "closed"
    /\ pc' = "close_wav"
    /\ trace' = Append(trace, "closure")
    /\ UNCHANGED <<args, device_index, success, fig, audio, stream, wav_file,
                   frame_count, audio_data, data_np, ydata, frame_rate,
                   stdout, frames_read, calls, runs, prompts, raised,
                   closed_after, file_before>>

\* Lines 123-128: the redraw of a closed window raises TclError; the frame
\* rate is computed from frame_count and printed, and the loop is left.
DrawTclError ==
    /\ pc = "draw"
    /\ fig = "closed"
    /\ frame_rate' = <<frame_count>>
    /\ stdout' = stdout \o <<"stopped", "Average frame rate">>
    /\ pc' = "close_wav"
    /\ trace' = Append(trace, "closure")
    /\ UNCHANGED <<args, device_index, success, fig, audio, stream, wav_file,
                   frame_count, audio_data, data_np, ydata, frames_read,
                   calls, runs, prompts, raised, closed_after, file_before>>

\* The user closes the window; possible at any time once it is shown.
CloseSurface ==
    /\ pc \in {"read", "write", "convert", "set_ydata", "draw"}
    /\ fig = "open"
    /\ fig' = "closed"
    /\ closed_after' = <<frame_count>>
    /\ UNCHANGED <<pc, args, device_index, success, audio, stream, wav_file,
                   frame_count, audio_data, data_np, ydata, frame_rate,
                   stdout, frames_read, calls, runs, prompts, raised, trace,
                   file_before>>

---------------------------------------------------------------------------
(* visualize_audio: teardown, lines 130-138 *)

\* Line 131.
CloseWavOk ==
    /\ pc = "close_wav"
    /\ wav_file' = [wav_file EXCEPT !.state = "closed"]
    /\ Called("wav_file.close")
    /\ pc' = "stop_stream"
    /\ trace' = Append(trace, "wav_file.close")
    /\ UNCHANGED <<args, device_index, success, fig, audio, stream,
                   frame_count, audio_data, data_np, ydata, frame_rate,
                   stdout, frames_read, runs, prompts, raised, closed_after,
                   file_before>>

\* Line 131: close raises OSError (the header cannot be patched or the
\* data flushed), which nothing catches.
CloseWavOSError ==
    /\ pc = "close_wav"
    /\ wav_file' = [wav_file EXCEPT !.state = "close_failed"]
    /\ Called("wav_file.close")
    /\ pc' = "crashed"
    /\ raised' = "wav_file.close"
    /\ UNCHANGED <<args, device_index, success, fig, audio, stream,
                   frame_count, audio_data, data_np, ydata, frame_rate,
                   stdout, frames_read, runs, prompts, closed_after, trace,
                   file_before>>

\* Variant of StopStreamOk: the stream is stopped but never closed.
StopStreamOkSkipsClose ==
    /\ pc = "stop_stream"
    /\ stream' = "stopped"
    /\ Called("stream.stop_stream")
    /\ pc' = "terminate"
    /\ trace' = Append(trace, "stream.stop_stream")
    /\ UNCHANGED <<args, device_index, success, fig, audio, wav_file,
                   frame_count, audio_data, data_np, ydata, frame_rate,
                   stdout, frames_read, runs, prompts, raised, closed_after,
                   file_before>>

\* Line 134.
StopStreamOk ==
    /\ pc = "stop_stream"
    /\ stream' = "stopped"
    /\ Called("stream.stop_stream")
    /\ pc' = "close_stream"
    /\ trace' = Append(trace, "stream.stop_stream")
    /\ UNCHANGED <<args, device_index, success, fig, audio, wav_file,
                   frame_count, audio_data, data_np, ydata, frame_rate,
                   stdout, frames_read, runs, prompts, raised, closed_after,
                   file_before>>

\* Line 134: stop_stream raises OSError, which nothing catches.
StopStreamOSError ==
    /\ pc = "stop_stream"
    /\ Called("stream.stop_stream")
    /\ pc' = "crashed"
    /\ raised' = "stream.stop_stream"
    /\ UNCHANGED <<args, device_index, success, fig, audio, stream, wav_file,
                   frame_count, audio_data, data_np, ydata, frame_rate,
                   stdout, frames_read, runs, prompts, closed_after, trace,
                   file_before>>

\* Line 135.
CloseStream ==
    /\ pc = "close_stream"
    /\ stream' = "closed"
    /\ Called("stream.close")
    /\ pc' = "terminate"
    /\ trace' = Append(trace, "stream.close")
    /\ UNCHANGED <<args, device_index, success, fig, audio, wav_file,
                   frame_count, audio_data, data_np, ydata, frame_rate,
                   stdout, frames_read, runs, prompts, raised, closed_after,
                   file_before>>

\* Lines 136-138.
Terminate ==
    /\ pc = "terminate"
    /\ audio' = "terminated"
    /\ Called("audio.terminate")
    /\ success' = <<TRUE>>
    /\ pc' = "returned"
    /\ trace' = Append(trace, "audio.terminate")
    /\ UNCHANGED <<args, device_index, fig, stream, wav_file, frame_count,
                   audio_data, data_np, ydata, frame_rate, stdout,
                   frames_read, runs, prompts, raised, closed_after,
                   file_before>>

---------------------------------------------------------------------------

Next ==
    \/ Main
    \/ SelectDevice
    \/ Returned
    \/ Begin
    \/ OpenStreamOk
    \/ OpenStreamOSError
    \/ OpenWavOk
    \/ OpenWavOSError
    \/ StartLoop
    \/ ReadOk
    \/ ReadOSError
    \/ WriteFrames
    \/ WriteFramesOSError
    \/ Convert
    \/ SetYData
    \/ DrawOk
    \/ DrawTclError
    \/ CloseSurface
    \/ CloseWavOk
    \/ CloseWavOSError
    \/ StopStreamOk
    \/ StopStreamOSError
    \/ CloseStream
    \/ Terminate

Spec == Init /\ [][Next]_vars

---------------------------------------------------------------------------
(* Properties *)

RECURSIVE Flatten(_)
Flatten(frames) ==
    IF frames = <<>> THEN <<>> ELSE Head(frames) \o Flatten(Tail(frames))

AllButLast(seq) == SubSeq(seq, 1, Len(seq) - 1)

Signed8(b) == IF b < 128 THEN b ELSE b - 256

FrameLen == FrameBytes(args.samples_per_frame, args.num_channels)

\* The current call of visualize_audio has ended: it returned or it raised.
RunEnded == pc \in {"returned", "crashed"}

\* C1: the data of the output file is the concatenation, in read order, of
\* the frames read in the run: while the file is open at most the frame
\* just read is still to be written, and when the file is closed every
\* frame read has been written.
C1_FramesPersistedInOrder ==
    /\ wav_file.state = "open" =>
          \/ wav_file.data = Flatten(frames_read)
          \/ /\ frames_read # <<>>
             /\ wav_file.data = Flatten(AllButLast(frames_read))
             /\ \/ pc = "write"
                \/ raised = "wav_file.writeframes"
    /\ wav_file.state = "closed" => wav_file.data = Flatten(frames_read)

C1_Witness ==
    /\ wav_file.state = "closed"
    /\ Len(frames_read) = 2
    /\ frames_read[1] # frames_read[2]

\* C2 as stated: when the window was closed after K completed cycles, the
\* teardown is entered with exactly K frames read and written, the
\* finalized file holds K frames and the reported cycle count is K.
C2_FileHoldsKFrames ==
    frame_rate # <<>> =>
        /\ frame_rate = closed_after
        /\ Len(frames_read) = closed_after[1]
        /\ Len(wav_file.data) = closed_after[1] * FrameLen

\* C2 amended: when the window was closed after K completed cycles, the
\* closure is detected by the failed redraw of cycle K+1, whose frame has
\* been read and written: the file holds K+1 frames when it is finalized,
\* and the reported cycle count is K.
C2_FileHoldsKPlusOneFrames ==
    frame_rate # <<>> =>
        /\ frame_rate = closed_after
        /\ frame_count = closed_after[1]
        /\ Len(frames_read) = closed_after[1] + 1
        /\ Len(wav_file.data) = (closed_after[1] + 1) * FrameLen
        /\ wav_file.state = "closed" =>
              Len(wav_file.data) = (frame_rate[1] + 1) * FrameLen

C2_Witness ==
    /\ wav_file.state = "closed"
    /\ closed_after = <<1>>
    /\ success = <<TRUE>>

\* C3: a failing device read ends the run with the result False, without
\* an uncaught exception, and with the output file closed and holding
\* exactly the frames of the preceding cycles.
C3_ReadFailureReturnsFalse ==
    (RunEnded /\ raised = "stream.read") =>
        /\ pc = "returned"
        /\ success = <<FALSE>>
        /\ wav_file.state = "closed"
        /\ wav_file.data = Flatten(frames_read)

\* C4: when audio.open fails the run returns False without raising, and at
\* that moment no output file has been opened and no stream is open.
C4_OpenFailureReturnsFalse ==
    (calls["audio.open"] = 1 /\ stream = "none") =>
        /\ raised = "none"
        /\ pc \in {"returned", "select", "run"}
        /\ success = <<FALSE>>
        /\ calls["wave.open"] = 0
        /\ wav_file.state = "none"

C4_Witness ==
    /\ pc = "returned"
    /\ success = <<FALSE>>
    /\ calls["audio.open"] = 1
    /\ stream = "none"

\* C5: when a run has ended, the output file, if the run opened it, has
\* been closed exactly once, and the device stream, if the run opened it,
\* has been closed exactly once.
C5_ClosedExactlyOnce ==
    RunEnded =>
        /\ (calls["wave.open"] = 1 /\ raised # "wave.open") =>
              calls["wav_file.close"] = 1
        /\ stream # "none" => calls["stream.close"] = 1

\* C6: the process ends only after a run has returned True and the average
\* frame rate has been printed; a failed run never ends the process.
C6_ExitsOnlyAfterSuccess ==
    pc \in {"done", "crashed"} =>
        /\ pc = "done"
        /\ success = <<TRUE>>
        /\ frame_rate # <<>>

\* C7: after the conversion of a frame, the series has one value for every
\* second byte of the frame, starting with the first; each value is that
\* byte read as a signed 8-bit number plus 128, and lies in 0..255.
C7_SeriesIsBiasedLowByte ==
    pc \in {"set_ydata", "draw"} =>
        /\ Len(data_np) * 2 = Len(audio_data)
        /\ \A i \in 1..Len(data_np) :
              /\ data_np[i] = Signed8(audio_data[2 * i - 1]) + 128
              /\ data_np[i] \in 0..255

C7_Witness ==
    /\ pc = "draw"
    /\ \E i, j \in 1..Len(data_np) :
          /\ audio_data[2 * i - 1] < 128
          /\ audio_data[2 * j - 1] >= 128

\* C8: for every positive frame size and channel count the conversion of
\* a frame succeeds and yields a series of samples_per_frame values.
C8_ConversionSucceeds ==
    /\ raised # "struct.unpack"
    /\ pc \in {"set_ydata", "draw"} =>
          Len(data_np) = args.samples_per_frame

\* C9: once the teardown has begun, the close of the output file and the
\* close of the device stream have both been attempted when the run ends,
\* whether or not an earlier teardown step failed.
C9_TeardownAttemptsEveryClose ==
    (RunEnded /\ frame_rate # <<>>) =>
        /\ calls["wav_file.close"] >= 1
        /\ calls["stream.close"] >= 1

\* C10: when audio.open or wave.open fails, the run returns False and the
\* PyAudio instance, the stream, the figure and the file that the run had
\* opened have been released.
C10_OpeningFailureReleasesAll ==
    (RunEnded /\ (raised = "wave.open"
                  \/ (calls["audio.open"] = 1 /\ stream = "none"))) =>
        /\ pc = "returned"
        /\ success = <<FALSE>>
        /\ audio # "live"
        /\ stream # "active"
        /\ fig \notin {"created", "open"}
        /\ wav_file.state # "open"

---------------------------------------------------------------------------
(* Properties of the header, the step order, the statistics, the driver *)

IsPrefix(a, b) == Len(a) <= Len(b) /\ a = SubSeq(b, 1, Len(a))

\* Position of the last occurrence of x in seq, 0 when there is none.
LastIndexOf(seq, x) ==
    IF \E i \in 1..Len(seq) : seq[i] = x
      THEN CHOOSE i \in 1..Len(seq) :
              /\ seq[i] = x
              /\ \A j \in (i + 1)..Len(seq) : seq[j] # x
      ELSE 0

CycleStepNames == {"read", "write", "transcode", "update", "increment"}

IsCycleStep(e) == e \in CycleStepNames

\* The steps the cycle in progress (or the last one) has completed.
CurrentCycle ==
    LET k == LastIndexOf(trace, "read")
    IN  IF k = 0 THEN <<>>
        ELSE SelectSeq(SubSeq(trace, k, Len(trace)), IsCycleStep)

IsFrameRateLine(m) == m = "Average frame rate"

FrameRatePrints == Len(SelectSeq(stdout, IsFrameRateLine))

ValidIndices == 0..(NumDevices - 1)

LoopPcs == {"read", "write", "convert", "set_ydata", "draw"}

HeaderMatchesArgs ==
    /\ wav_file.nchannels = args.num_channels
    /\ wav_file.sampwidth = SAMPLE_WIDTH
    /\ wav_file.framerate = args.sample_rate

\* C11 as stated: a run closed with zero completed cycles leaves a
\* finalized file with the configured header and no frame data.
C11_ZeroCycleFileIsHeaderOnly ==
    (wav_file.state = "closed" /\ frame_rate = <<0>>) =>
        /\ HeaderMatchesArgs
        /\ wav_file.data = <<>>

\* C11 amended: a run closed with zero completed cycles leaves a finalized
\* file with the configured channel count, sample width and sample rate,
\* whose data is exactly the one frame read in the cycle whose redraw
\* detected the closure.
C11_ZeroCycleFileHoldsOneFrame ==
    (wav_file.state = "closed" /\ frame_rate = <<0>>) =>
        /\ HeaderMatchesArgs
        /\ Len(frames_read) = 1
        /\ wav_file.data = frames_read[1]
        /\ Len(wav_file.data) = FrameLen

C11_Witness ==
    /\ wav_file.state = "closed"
    /\ frame_rate = <<0>>
    /\ args.sample_rate # SAMPLE_RATE
    /\ file_before = OldFile

\* C12 as stated: the steps of a cycle come in the order read, transcode,
\* write, update, increment.
C12_TranscodeBeforeWrite ==
    IsPrefix(CurrentCycle,
             <<"read", "transcode", "write", "update", "increment">>)

\* C12 amended: the steps of a cycle come in the order read, write,
\* transcode, update, increment: a frame is written to the file before it
\* is transcoded, and the cycle count is incremented only after the
\* renderer update of that cycle.
C12_WriteBeforeTranscode ==
    IsPrefix(CurrentCycle,
             <<"read", "write", "transcode", "update", "increment">>)

C12_Witness ==
    /\ CurrentCycle = <<"read", "write", "transcode", "update", "increment">>
    /\ frame_count = 2

\* C13: once entered, the loop is left only by the detection of the closed
\* window, which leads to the teardown, or by a failing device read, which
\* leads to the result False.
C13_LoopLeftOnlyByClosureOrFailedRun ==
    (fig \in {"open", "closed"} /\ pc \notin LoopPcs) =>
        \/ fig = "closed" /\ frame_rate # <<>>
                          /\ raised \in {"none", "wav_file.close",
                                         "stream.stop_stream"}
        \/ pc = "returned" /\ success = <<FALSE>>

\* C14: the frame rate is printed exactly once in a run that detected the
\* closure, before the run returns True, and is neither computed nor
\* printed in a run that fails while opening or in the loop.
C14_StatsOnceOnClosureOnly ==
    /\ FrameRatePrints <= 1
    /\ frame_rate # <<>> <=> FrameRatePrints = 1
    /\ "closure" \in {trace[i] : i \in 1..Len(trace)} <=> frame_rate # <<>>
    /\ success = <<TRUE>> => FrameRatePrints = 1
    /\ \/ pc = "returned" /\ success = <<FALSE>>
       \/ raised \in {"wave.open", "stream.read", "wav_file.writeframes",
                      "struct.unpack"}
       => FrameRatePrints = 0 /\ frame_rate = <<>>

C14_Witness ==
    /\ success = <<TRUE>>
    /\ FrameRatePrints = 1
    /\ runs = 2

\* C15: every run is started with an index in 0..deviceCount-1; the
\* command-line index is used only when it is in that range, otherwise
\* select_device is entered, and select_device is left only with an index
\* in that range.
C15_RunsUseValidatedIndex ==
    /\ pc \notin {"main", "select"} =>
          /\ device_index # <<>>
          /\ device_index[1] \in ValidIndices
    /\ runs > 0 => device_index[1] \in ValidIndices
    /\ (prompts = 0 /\ pc \notin {"main", "select"}) =>
          device_index = args.input_device
    /\ (pc # "main" /\ (\/ args.input_device = <<>>
                        \/ args.input_device[1] \notin ValidIndices)) =>
          \/ prompts >= 1
          \/ pc = "select" /\ runs = 0

C15_Witness ==
    /\ pc = "open_stream"
    /\ args.input_device = <<NumDevices>>
    /\ prompts = 3
    /\ Len(stdout) = 2

\* C16: the number of frames written to the file is frame_count or
\* frame_count + 1, and when the closure is detected the frame of that
\* cycle has been written.
C16_WrittenIsCountOrCountPlusOne ==
    /\ wav_file.state # "none" =>
          \/ Len(wav_file.data) = frame_count * FrameLen
          \/ Len(wav_file.data) = (frame_count + 1) * FrameLen
    /\ (trace # <<>> /\ trace[Len(trace)] = "closure") =>
          /\ CurrentCycle = <<"read", "write", "transcode", "update">>
          /\ Len(wav_file.data) = (frame_count + 1) * FrameLen
          /\ SubSeq(wav_file.data, frame_count * FrameLen + 1,
                    Len(wav_file.data)) = audio_data

C16_Witness ==
    /\ trace # <<>>
    /\ trace[Len(trace)] = "closure"
    /\ frame_count = 1
    /\ Len(wav_file.data) = 2 * FrameLen

\* C17: while the last run has returned False and the next one has not
\* opened its device stream, the output file is as it was before the
\* program started; the file differs from that only in a run that has
\* opened its stream.
C17_FailedRunLeavesFileUntouched ==
    /\ (success = <<FALSE>> /\ pc \in {"returned", "select", "run",
                                        "open_stream"}) =>
          wav_file = file_before
    /\ (pc = "returned" /\ success = <<FALSE>>) => calls["wave.open"] = 0
    /\ wav_file # file_before => stream # "none"

C17_Witness ==
    /\ pc = "open_stream"
    /\ success = <<FALSE>>
    /\ runs = 2
    /\ file_before = OldFile
    /\ wav_file = OldFile

\* C18: when visualize_audio has returned True the file is closed, the
\* stream stopped and closed and the PyAudio instance terminated, these
\* four steps having followed the detection of the closure in this order;
\* no read and no write ever follows the detection of the closure.
C18_OrderedTeardownAfterClosure ==
    /\ success = <<TRUE>> =>
          /\ wav_file.state = "closed"
          /\ stream = "closed"
          /\ audio = "terminated"
          /\ LastIndexOf(trace, "closure") > 0
          /\ SubSeq(trace, LastIndexOf(trace, "closure"), Len(trace))
                = <<"closure", "wav_file.close", "stream.stop_stream",
                    "stream.close", "audio.terminate">>
    /\ \A i, j \in 1..Len(trace) :
          (trace[i] = "closure" /\ j > i) => trace[j] \notin {"read", "write"}

C18_Witness ==
    /\ success = <<TRUE>>
    /\ frame_count = 1
    /\ Len(frames_read) = 2

====
